---- MODULE Spec2Model ----
(***************************************************************************)
(* Innotiva backend: an Express relay with three routes.  The repository   *)
(* holds four variants of the same server:                                 *)
(*   "sdxl_fetch"  src/unnamed/part_000   (Replicate over fetch)           *)
(*   "dalle3"      src/app.js 1-237       (OpenAI dall-e-3)                *)
(*   "sdxl_sdk"    src/app.js 239-540     (Replicate SDK)                  *)
(*   "gpt_image_1" src/app.js 542-758     (OpenAI gpt-image-1)             *)
(* A running process is one of them; `variant` says which.                 *)
(*                                                                         *)
(* JavaScript values are tagged records; a JavaScript string is the        *)
(* sequence of its pieces: single characters for request text, and one     *)
(* piece for each literal fragment of a template.                          *)
(***************************************************************************)
EXTENDS Integers, Sequences, FiniteSets, TLC

\* ------------------------------------------------------------------ bounds
MaxLen      == 3   \* longest idea text fed to generarMensajePersonalizado
MaxOutput   == 2   \* longest output list the generation provider returns
MaxProducts == 2   \* longest edge list the commerce platform returns
MaxClock    == 1   \* last value of Date.now() the model distinguishes

\* ------------------------------------------------------- JavaScript values
Undefined == [t |-> "undefined"]
Null      == [t |-> "null"]
Str(s)    == [t |-> "string", v |-> s]
Arr(s)    == [t |-> "array", v |-> s]

\* ToBoolean: undefined, null and "" are falsy; arrays and objects are truthy
Truthy(x) ==
  CASE x.t = "string" -> x.v # << >>
    [] x.t = "undefined" -> FALSE
    [] x.t = "null" -> FALSE
    [] OTHER -> TRUE

RECURSIVE Join(_)
\* Array.prototype.toString of an array of strings: elements joined by ","
Join(s) ==
  IF s = << >> THEN << >>
  ELSE IF Len(s) = 1 THEN Head(s).v
  ELSE Head(s).v \o <<",">> \o Join(Tail(s))

\* ToString, as applied by template literals and by string "+"
JSToString(x) ==
  CASE x.t = "string" -> x.v
    [] x.t = "undefined" -> <<"undefined">>
    [] x.t = "null" -> <<"null">>
    [] x.t = "array" -> Join(x.v)
    [] OTHER -> <<"[object Object]">>

\* outcome of evaluating a function body: a returned value or a thrown error
Return(x) == [k |-> "return", v |-> x]
Throw(m)  == [k |-> "throw", message |-> m]

IsWhiteSpace(c) == c \in {" ", "\t"}

RECURSIVE TrimStart(_)
TrimStart(s) ==
  IF s # << >> /\ IsWhiteSpace(Head(s)) THEN TrimStart(Tail(s)) ELSE s

RECURSIVE TrimEnd(_)
TrimEnd(s) ==
  IF s # << >> /\ IsWhiteSpace(s[Len(s)]) THEN TrimEnd(SubSeq(s, 1, Len(s) - 1)) ELSE s

\* String.prototype.trim
trim(s) == TrimEnd(TrimStart(s))

\* s occurs in m as a contiguous run (String.prototype.includes)
Includes(m, s) ==
  \E i \in 0..(Len(m) - Len(s)) : SubSeq(m, i + 1, i + Len(s)) = s

StartsWith(m, s) == Len(s) <= Len(m) /\ SubSeq(m, 1, Len(s)) = s
EndsWith(m, s)   == Len(s) <= Len(m) /\ SubSeq(m, Len(m) - Len(s) + 1, Len(m)) = s

Variants == {"sdxl_fetch", "dalle3", "sdxl_sdk", "gpt_image_1"}
ReplicateVariants == {"sdxl_fetch", "sdxl_sdk"}

\* ---------------------------------------------------------------- process.env
DomainText == <<"tienda.myshopify.com">>
DefaultDomainText == <<"innotiva-vision.myshopify.com">>
Envs ==
  [ SHOPIFY_STORE_DOMAIN : {Undefined, Str(DomainText)},
    SHOPIFY_STOREFRONT_TOKEN : {Undefined, Str(<<"shpat">>)},
    SHOPIFY_STOREFRONT_ACCESS_TOKEN : {Undefined},
    GENERATION_TOKEN : {Undefined, Str(<<"r8">>)} ]

\* a || b
Or(a, b) == IF Truthy(a) THEN a ELSE b

\* the store domain as the variant's code reads it
ShopDomain(v, e) ==
  IF v = "sdxl_sdk" THEN Or(e.SHOPIFY_STORE_DOMAIN, Str(DefaultDomainText))
  ELSE e.SHOPIFY_STORE_DOMAIN

\* the storefront token as the variant's code reads it
ShopToken(v, e) ==
  IF v = "sdxl_sdk"
  THEN Or(e.SHOPIFY_STOREFRONT_TOKEN, Or(e.SHOPIFY_STOREFRONT_ACCESS_TOKEN, Str(<< >>)))
  ELSE e.SHOPIFY_STOREFRONT_TOKEN

\* ------------------------------------------------ generarMensajePersonalizado
\* U+201C and U+201D, the quotation marks of the template
OpenQuote  == "[U+201C]"
CloseQuote == "[U+201D]"
LeadBefore == "La eleccion de "
LeadAfter  == " encaja muy bien con el estilo de tu espacio. "
IdeaBefore == "Tu idea de "
IdeaAfter  == " aporta un toque muy personal a la composicion. "
NoIdeaSentence ==
  "Nos enfocamos en una composicion equilibrada y minimalista para que el producto sea protagonista sin recargar el ambiente. "
ClosingPreparamos ==
  "Preparamos esta visualizacion para que puedas tomar una decision con total seguridad, viendo como se transforma tu ambiente antes de comprar."
ClosingEsta ==
  "Esta visualizacion te ayuda a tomar decisiones con mas confianza, viendo como se transforma tu espacio antes de comprar."

Lead(productName) == <<LeadBefore>> \o JSToString(productName) \o <<LeadAfter>>
Closing(v) == IF v = "sdxl_sdk" THEN <<ClosingEsta>> ELSE <<ClosingPreparamos>>

IdeaTestNoTrim(idea) ==
  IF ~Truthy(idea) THEN Return(FALSE)
  ELSE IF idea.t # "string" THEN Throw(<<"idea.trim is not a function">>)
  ELSE Return(Len(idea.v) > 0)

\* `idea && idea.trim().length > 0`: a truthy value without a trim method
\* raises TypeError; otherwise the test's boolean
IdeaTest(idea) ==
  IF ~Truthy(idea) THEN Return(FALSE)
  ELSE IF idea.t # "string" THEN Throw(<<"idea.trim is not a function">>)
  ELSE Return(Len(trim(idea.v)) > 0)

generarMensajePersonalizado(v, productName, idea) ==
  LET test == IdeaTest(idea) IN
  IF test.k = "throw" THEN test
  ELSE Return(Str(
         Lead(productName)
         \o (IF test.v
             THEN <<IdeaBefore, OpenQuote>> \o trim(idea.v) \o <<CloseQuote, IdeaAfter>>
             ELSE IF v = "sdxl_sdk" THEN <<NoIdeaSentence>> ELSE << >>)
         \o Closing(v)))

\* ------------------------------------------------------- POST /experiencia-premium
Reqs == {"r1", "r2"}

\* multer's req.file for request r: its buffer is the image r sent
File(r) == [t |-> "file", buffer |-> r]

ProductIds   == {Undefined, Str(<< >>), Str(<<"lampara">>)}
ProductNames == {Undefined, Str(<< >>), Str(<<"Lampara Sol">>)}
ProductUrls  == {Undefined, Str(<< >>), Str(<<"https://tienda.example/p/lampara">>)}
\* absent, whitespace only, text with surrounding blanks, and a repeated
\* multipart field, which multer delivers as an array
Ideas == {Undefined, Str(<<" ">>), Str(<<" ", "a", " ">>), Arr(<<Str(<<"a">>), Str(<<"b">>)>>)}
Bodies == [productId : ProductIds, productName : ProductNames, idea : Ideas, productUrl : ProductUrls]

ErrInterno == <<"Error interno preparando la experiencia premium">>

Json(status, body) == [status |-> status, body |-> body]

ValidateNoName(v, file, body) ==
  IF ~Truthy(file)
  THEN Json(400, [success |-> FALSE,
                  error |-> IF v = "sdxl_sdk" THEN <<"Falta la imagen del espacio (roomImage)">>
                            ELSE <<"roomImage es obligatorio">>])
  ELSE IF ~Truthy(body.productId)
  THEN Json(400, [success |-> FALSE,
                  error |-> IF v = "sdxl_sdk" THEN <<"Faltan datos del producto (productId / productName)">>
                            ELSE <<"productId y productName son obligatorios">>])
  ELSE Null

\* the two presence checks that open the handler; Null when both pass
Validate(v, file, body) ==
  IF ~Truthy(file)
  THEN Json(400, [success |-> FALSE,
                  error |-> IF v = "sdxl_sdk" THEN <<"Falta la imagen del espacio (roomImage)">>
                            ELSE <<"roomImage es obligatorio">>])
  ELSE IF ~Truthy(body.productId) \/ ~Truthy(body.productName)
  THEN Json(400, [success |-> FALSE,
                  error |-> IF v = "sdxl_sdk" THEN <<"Faltan datos del producto (productId / productName)">>
                            ELSE <<"productId y productName son obligatorios">>])
  ELSE Null

\* the catch block of the handler
CatchPremiumLeaky(err) == Json(500, [success |-> FALSE, error |-> err.message])

CatchPremium(err) == Json(500, [success |-> FALSE, error |-> ErrInterno])

\* public_id handed to cloudinary.uploader.upload_stream; the variants that
\* pass none get an identifier generated by the media host, unique per upload
PublicId(v, r, now) ==
  IF v = "sdxl_sdk" THEN <<"room", "_", now>> ELSE <<"auto", "_", r>>

UploadErrors == {<<"Invalid api_key">>, <<"File size too large">>}

SecureUrl(id) == Str(<<"https://res.cloudinary.com/", "innotiva/rooms", "/">> \o id)

Placeholder(v) ==
  IF v = "gpt_image_1" THEN Str(<<"https://via.placeholder.com/500x300?text=Propuesta+IA">>)
  ELSE Str(<<"https://via.placeholder.com/1024x1024?text=Propuesta+IA">>)

\* the arguments the handler passes to the synthesis client
SynthArgs(v, userImageUrl, body) ==
  CASE v = "sdxl_fetch" -> [roomImageUrl |-> userImageUrl, productName |-> body.productName, idea |-> body.idea]
    [] v = "sdxl_sdk" -> [roomImageUrl |-> userImageUrl, productName |-> body.productName,
                          idea |-> Or(body.idea, Str(<< >>))]
    [] OTHER -> [roomImageUrl |-> Undefined, productName |-> body.productName, idea |-> body.idea]

\* the prompt template: fixed clauses around the product name and either the
\* trimmed idea or the variant's default composition clause
Prompt(v, productName, idea, withIdea) ==
  <<"[scene]", "[product ">> \o JSToString(productName) \o <<"]">>
  \o (IF withIdea
      THEN (IF v = "sdxl_sdk" THEN <<"Client request: \"">> \o trim(idea.v) \o <<"\". ">>
            ELSE IF v = "sdxl_fetch" THEN <<"Client request: ">> \o trim(idea.v) \o <<". ">>
            ELSE <<"El cliente pidio especificamente: ">> \o trim(idea.v) \o <<".">>)
      ELSE <<"[default composition]">>)
  \o <<"[quality]">>

SynthBeginNoCredentialTest(v, e, args) ==
  LET test == IdeaTest(args.idea) IN
  IF test.k = "throw" THEN test
  ELSE [k |-> "call",
        prompt |-> Prompt(v, args.productName, args.idea, test.v),
        image |-> args.roomImageUrl]

\* the synthesis client up to its first await: the credential test, then the
\* prompt, which is built before the try block opens
SynthBegin(v, e, args) ==
  IF ~Truthy(e.GENERATION_TOKEN) THEN Return(Placeholder(v))
  ELSE LET test == IdeaTest(args.idea) IN
       IF test.k = "throw" THEN test
       ELSE [k |-> "call",
             prompt |-> Prompt(v, args.productName, args.idea, test.v),
             image |-> args.roomImageUrl]

\* ---- what the generation provider can answer
GenUrl1 == Str(<<"https://replicate.delivery/out-0.png">>)
GenUrl2 == Str(<<"https://replicate.delivery/out-1.png">>)
OutputElements == {GenUrl1, GenUrl2, Str(<< >>), Null}

RECURSIVE SeqsUpTo(_, _)
\* every sequence over S of length at most n
SeqsUpTo(S, n) ==
  IF n = 0 THEN {<< >>}
  ELSE LET shorter == SeqsUpTo(S, n - 1) IN
       shorter \cup {Append(q, x) : q \in {p \in shorter : Len(p) = n - 1}, x \in S}

OutputLists == SeqsUpTo(OutputElements, MaxOutput)

\* the JSON document of a prediction (Replicate) ...
Predictions ==
  {Null} \cup
  [t : {"object"}, output : {Undefined, Null, GenUrl1} \cup {Arr(l) : l \in OutputLists}]
\* ... of an image response (OpenAI): data is absent or a list of items
\* that carry a url or not (b64_json answers carry none)
ImageItems == [t : {"object"}, url : {Undefined, GenUrl1, GenUrl2, Str(<< >>)}]
ImageResponses ==
  {Null} \cup
  [t : {"object"}, data : {Undefined} \cup {Arr(l) : l \in SeqsUpTo(ImageItems, MaxOutput)}]
\* ... and the value replicate.run resolves to
RunOutputs == {Undefined, Null, GenUrl1} \cup {Arr(l) : l \in OutputLists}

HttpErrors == [k : {"http_error"}, status : {"422", "500"}, text : {<<"upstream detail">>}]

\* settlements of the provider call: the promise rejects, the status is not
\* ok, the body is not JSON, or a JSON document arrives
ProviderOutcomes(v) ==
  {[k |-> "reject"]} \cup
  (CASE v = "sdxl_sdk" -> {[k |-> "value", output |-> o] : o \in RunOutputs}
     [] v = "sdxl_fetch" ->
          HttpErrors \cup {[k |-> "bad_json"]} \cup {[k |-> "json", json |-> j] : j \in Predictions}
     [] OTHER ->
          HttpErrors \cup {[k |-> "bad_json"]} \cup {[k |-> "json", json |-> j] : j \in ImageResponses})

\* Array.isArray(x) && x.length > 0
NonEmptyArray(x) == x.t = "array" /\ Len(x.v) > 0

PickLastOutput(list) == list[Len(list)]

\* which element of the output list the client hands back
PickOutput(list) == list[1]

ReplicateEndPropagates(v, o) ==
  CASE o.k = "reject" -> Throw(<<"fetch failed">>)
    [] o.k = "http_error" -> Throw(<<"Error Replicate SDXL:", o.status>>)
    [] o.k = "bad_json" -> Return(Placeholder(v))
    [] o.k = "json" ->
         IF Truthy(o.json) /\ Truthy(o.json.output) /\ NonEmptyArray(o.json.output)
         THEN Return(PickOutput(o.json.output.v))
         ELSE Return(Placeholder(v))
    [] o.k = "value" ->
         IF NonEmptyArray(o.output) THEN Return(PickOutput(o.output.v))
         ELSE Return(Placeholder(v))

\* llamarReplicateImagen after the provider settles (fetch and SDK forms)
ReplicateEnd(v, o) ==
  CASE o.k = "reject" -> Return(Placeholder(v))
    [] o.k = "http_error" -> Return(Placeholder(v))
    [] o.k = "bad_json" -> Return(Placeholder(v))
    [] o.k = "json" ->
         IF Truthy(o.json) /\ Truthy(o.json.output) /\ NonEmptyArray(o.json.output)
         THEN Return(PickOutput(o.json.output.v))
         ELSE Return(Placeholder(v))
    [] o.k = "value" ->
         IF NonEmptyArray(o.output) THEN Return(PickOutput(o.output.v))
         ELSE Return(Placeholder(v))

\* llamarOpenAIImagen after the provider settles
OpenAIEnd(v, o) ==
  CASE o.k = "reject" -> Return(Placeholder(v))
    [] o.k = "http_error" -> Return(Placeholder(v))
    [] o.k = "bad_json" -> Return(Placeholder(v))
    [] o.k = "json" ->
         IF /\ Truthy(o.json)
            /\ Truthy(o.json.data)
            /\ o.json.data.t = "array" /\ Len(o.json.data.v) > 0
            /\ Truthy(o.json.data.v[1].url)
         THEN Return(o.json.data.v[1].url)
         ELSE Return(Placeholder(v))

SynthEnd(v, o) == IF v \in ReplicateVariants THEN ReplicateEnd(v, o) ELSE OpenAIEnd(v, o)

\* step 3 of the handler: the explicit URL, else one built from the domain
ResolveProductUrl(v, e, body) ==
  LET shopDomain == ShopDomain(v, e)
      built == Str(<<"https://">> \o JSToString(shopDomain) \o <<"/products/">> \o JSToString(body.productId))
  IN CASE v = "gpt_image_1" -> IF Truthy(shopDomain) THEN built ELSE Null
       [] v = "sdxl_sdk" -> IF Truthy(body.productUrl) THEN body.productUrl ELSE built
       [] OTHER ->
            LET finalProductUrl == Or(body.productUrl, Null) IN
            IF ~Truthy(finalProductUrl) /\ Truthy(shopDomain) THEN built ELSE finalProductUrl

\* the handler from the synthesis client's return to the response
Finish(v, e, body, userImageUrl, generatedImageUrl) ==
  LET message == generarMensajePersonalizado(v, body.productName, body.idea) IN
  IF message.k = "throw" THEN CatchPremium(message)
  ELSE Json(200, [success |-> TRUE,
                  message |-> message.v,
                  userImageUrl |-> userImageUrl,
                  generatedImageUrl |-> generatedImageUrl,
                  productUrl |-> ResolveProductUrl(v, e, body),
                  productName |-> body.productName])

\* ------------------------------------------------------- GET /productos-shopify
ProductPlaceholder == Str(<<"https://via.placeholder.com/400x400?text=Producto">>)
ImageUrl == Str(<<"https://cdn.shopify.com/lampara.png">>)
StoreUrls == {Null, Str(<<"https://tienda.example/products/lampara">>)}

\* a product node as the variant's query asks for it: featuredImage { url },
\* or images(first: 1) { edges { node { url altText } } } in the SDK variant
Nodes(v) ==
  IF v = "sdxl_sdk"
  THEN [id : {Str(<<"gid://1">>)}, handle : {Str(<<"lampara">>)}, title : {Str(<<"Lampara">>)},
        description : {Str(<<"d">>)}, onlineStoreUrl : StoreUrls,
        images : {[edges |-> Arr(<< >>)],
                  [edges |-> Arr(<<[node |-> [url |-> ImageUrl, altText |-> Null]]>>)]}]
  ELSE [id : {Str(<<"gid://1">>)}, title : {Str(<<"Lampara">>)}, handle : {Str(<<"lampara">>)},
        description : {Str(<<"d">>)}, availableForSale : {TRUE}, onlineStoreUrl : StoreUrls,
        featuredImage : {Null, [t |-> "object", url |-> ImageUrl]}]

\* the upstream record carries no image
HasNoImage(v, node) ==
  IF v = "sdxl_sdk" THEN node.images.edges.v = << >> ELSE node.featuredImage = Null

\* the thumbnail of a mapped record
MapImage(v, node) ==
  IF v = "sdxl_sdk"
  THEN (IF node.images.edges.v # << >> /\ Truthy(node.images.edges.v[1].node.url)
        THEN node.images.edges.v[1].node.url
        ELSE ProductPlaceholder)
  ELSE (IF Truthy(node.featuredImage) THEN node.featuredImage.url ELSE Null)

\* one edge mapped to the record sent to the front end
MapProduct(v, e, node) ==
  IF v = "sdxl_sdk"
  THEN [id |-> node.handle, handle |-> node.handle, title |-> node.title,
        description |-> Or(node.description, Str(<< >>)),
        image |-> MapImage(v, node),
        url |-> Or(node.onlineStoreUrl,
                   Str(<<"https://">> \o JSToString(ShopDomain(v, e)) \o <<"/products/">>
                       \o JSToString(node.handle)))]
  ELSE [id |-> node.id, title |-> node.title, handle |-> node.handle,
        description |-> node.description, available |-> node.availableForSale,
        url |-> node.onlineStoreUrl, image |-> MapImage(v, node)]

\* settlements of the storefront query
ShopStatuses == {"401", "503"}
ShopBodies == {<<"{\"errors\":\"[API] Invalid API key\"}">>, <<"Service Unavailable">>}
CatalogOutcomes(v) ==
  {[k |-> "reject"], [k |-> "bad_json"], [k |-> "json", data |-> Undefined]}
  \cup [k : {"http_error"}, status : ShopStatuses, text : ShopBodies]
  \cup {[k |-> "json", data |-> l] : l \in {Arr(q) : q \in SeqsUpTo(Nodes(v), MaxProducts)}}

ErrFaltan == <<"Faltan SHOPIFY_STORE_DOMAIN o SHOPIFY_STOREFRONT_TOKEN en .env">>
ErrGenerico == <<"No se pudieron obtener los productos de Shopify">>

\* llamarShopifyProducts up to its fetch: the configuration test
CatalogBegin(v, e) ==
  IF v # "sdxl_sdk" /\ (~Truthy(ShopDomain(v, e)) \/ ~Truthy(ShopToken(v, e)))
  THEN Throw(ErrFaltan)
  ELSE [k |-> "call", domain |-> ShopDomain(v, e), withToken |-> Truthy(ShopToken(v, e))]

\* the error raised on a status that is not ok
CatalogHttpError(v, o) ==
  IF v = "sdxl_sdk" THEN Throw(ErrGenerico)
  ELSE Throw(<<"Error Shopify: ", o.status, " ">> \o o.text)

\* llamarShopifyProducts after its fetch settles
CatalogEnd(v, e, o) ==
  CASE o.k = "reject" -> Throw(<<"request to shopify failed">>)
    [] o.k = "http_error" -> CatalogHttpError(v, o)
    [] o.k = "bad_json" -> Throw(<<"invalid json response body">>)
    [] o.k = "json" ->
         IF o.data = Undefined
         THEN (IF v = "sdxl_sdk" THEN Return(Arr(<< >>))
               ELSE Throw(<<"Cannot read properties of undefined (reading 'products')">>))
         ELSE Return(Arr([i \in 1..Len(o.data.v) |-> MapProduct(v, e, o.data.v[i])]))

\* what the variant writes to the console about a settled query
CatalogLog(v, o, result) ==
  (IF v = "sdxl_sdk" /\ o.k = "http_error" THEN <<<<"Error Shopify:", o.status>> \o o.text>> ELSE << >>)
  \o (IF result.k = "throw" THEN <<<<"ERR /productos-shopify:">> \o result.message>> ELSE << >>)

\* the route: products on success, err.message with status 500 otherwise
CatalogResponse(result) ==
  IF result.k = "return" THEN Json(200, [success |-> TRUE, products |-> result.v])
  ELSE Json(500, [success |-> FALSE, error |-> result.message])

\* ------------------------------------------------------------------ state
VARIABLES
  variant,          \* which of the four servers runs
  env,              \* process.env
  clock,            \* Date.now()
  store,            \* the media host: public id -> image stored under it
  req,              \* per request: req.file and req.body, once received
  pc,               \* per request: where its handler is suspended
  uploadId,         \* per request: public id its upload was issued with
  uploadOutcome,    \* per request: how its upload settled
  userImageUrl,     \* per request: the handler's userImageUrl
  synthArgs,        \* per request: arguments of the synthesis client call
  providerRequest,  \* per request: what was sent to the generation provider
  providerOutcome,  \* per request: how the provider call settled
  synthResult,      \* per request: how the synthesis client settled
  sent,             \* per request: the responses written to res, in order
  uploadCalls,      \* per request: upload_stream calls issued
  synthCalls,       \* per request: synthesis client invocations
  providerCalls,    \* per request: calls issued to the generation provider
  catPc,            \* where the catalog handler is suspended
  catFetchCalls,    \* queries issued to the commerce platform
  catOutcome,       \* how the storefront query settled
  catLog,           \* console lines of the catalog route
  catSent,          \* responses written by the catalog route
  msgArgs,          \* arguments of a direct generarMensajePersonalizado call
  msgOut            \* its outcome

cfgVars == <<variant, env>>
premiumVars == <<clock, store, req, pc, uploadId, uploadOutcome, userImageUrl, synthArgs, providerRequest,
                 providerOutcome, synthResult, sent, uploadCalls, synthCalls, providerCalls>>
catalogVars == <<catPc, catFetchCalls, catOutcome, catLog, catSent>>
msgVars == <<msgArgs, msgOut>>

None == [k |-> "none"]
NoReq == [file |-> Undefined, body |-> Undefined]

InitPremium ==
  /\ clock = 0
  /\ store = {}
  /\ req = [r \in Reqs |-> NoReq]
  /\ pc = [r \in Reqs |-> "idle"]
  /\ uploadId = [r \in Reqs |-> << >>]
  /\ uploadOutcome = [r \in Reqs |-> None]
  /\ userImageUrl = [r \in Reqs |-> Undefined]
  /\ synthArgs = [r \in Reqs |-> None]
  /\ providerRequest = [r \in Reqs |-> None]
  /\ providerOutcome = [r \in Reqs |-> None]
  /\ synthResult = [r \in Reqs |-> None]
  /\ sent = [r \in Reqs |-> << >>]
  /\ uploadCalls = [r \in Reqs |-> 0]
  /\ synthCalls = [r \in Reqs |-> 0]
  /\ providerCalls = [r \in Reqs |-> 0]

InitCatalog ==
  /\ catPc = "idle"
  /\ catFetchCalls = 0
  /\ catOutcome = None
  /\ catLog = << >>
  /\ catSent = << >>

InitMsg ==
  /\ msgArgs = None
  /\ msgOut = None

\* ---------------------------------------------------------------- actions
\* Date.now() advances
Tick ==
  /\ clock < MaxClock
  /\ clock' = clock + 1
  /\ UNCHANGED <<cfgVars, catalogVars, msgVars, store, req, pc, uploadId, uploadOutcome,
                 userImageUrl, synthArgs, providerRequest, providerOutcome, synthResult, sent,
                 uploadCalls, synthCalls, providerCalls>>

\* res.status(..).json(..) followed by return
Respond(r, response) ==
  /\ sent' = [sent EXCEPT ![r] = Append(@, response)]
  /\ pc' = [pc EXCEPT ![r] = "done"]

\* a request arrives: the handler validates it and, if valid, issues the upload
Start(r, file, body) ==
  /\ pc[r] = "idle"
  /\ req' = [req EXCEPT ![r] = [file |-> file, body |-> body]]
  /\ LET rejected == Validate(variant, file, body) IN
     IF rejected # Null
     THEN /\ Respond(r, rejected)
          /\ UNCHANGED <<uploadId, uploadCalls>>
     ELSE /\ uploadId' = [uploadId EXCEPT ![r] = PublicId(variant, r, clock)]
          /\ uploadCalls' = [uploadCalls EXCEPT ![r] = @ + 1]
          /\ pc' = [pc EXCEPT ![r] = "await_upload"]
          /\ sent' = sent
  /\ UNCHANGED <<cfgVars, catalogVars, msgVars, clock, store, uploadOutcome, userImageUrl, synthArgs,
                 providerRequest, providerOutcome, synthResult, synthCalls, providerCalls>>

UploadFailsUnhandled(r, detail) ==
  /\ pc[r] = "await_upload"
  /\ uploadOutcome' = [uploadOutcome EXCEPT ![r] = [k |-> "error", message |-> detail]]
  /\ pc' = [pc EXCEPT ![r] = "done"]
  /\ UNCHANGED <<cfgVars, catalogVars, msgVars, clock, store, req, uploadId, userImageUrl,
                 synthArgs, providerRequest, providerOutcome, synthResult, sent, uploadCalls,
                 synthCalls, providerCalls>>

UploadFailsRetry(r, detail) ==
  /\ pc[r] = "await_upload"
  /\ uploadOutcome' = [uploadOutcome EXCEPT ![r] = [k |-> "error", message |-> detail]]
  /\ uploadCalls' = [uploadCalls EXCEPT ![r] = @ + 1]
  /\ UNCHANGED <<cfgVars, catalogVars, msgVars, clock, store, req, pc, uploadId, userImageUrl,
                 synthArgs, providerRequest, providerOutcome, synthResult, sent, synthCalls,
                 providerCalls>>

\* the upload callback reports an error: the promise rejects, the catch answers
UploadFails(r, detail) ==
  /\ pc[r] = "await_upload"
  /\ uploadOutcome' = [uploadOutcome EXCEPT ![r] = [k |-> "error", message |-> detail]]
  /\ Respond(r, CatchPremium(Throw(detail)))
  /\ UNCHANGED <<cfgVars, catalogVars, msgVars, clock, store, req, uploadId, userImageUrl, synthArgs,
                 providerRequest, providerOutcome, synthResult, uploadCalls, synthCalls,
                 providerCalls>>

\* the upload callback reports a result: the handler resumes with secure_url,
\* invokes the synthesis client and runs until that client's provider call
UploadSucceeds(r) ==
  /\ pc[r] = "await_upload"
  /\ LET url == SecureUrl(uploadId[r])
         args == SynthArgs(variant, url, req[r].body)
         begin == SynthBegin(variant, env, args)
     IN /\ store' = {a \in store : a.id # uploadId[r]}
                      \cup {[id |-> uploadId[r], image |-> req[r].file.buffer]}
        /\ uploadOutcome' = [uploadOutcome EXCEPT ![r] = [k |-> "ok", secure_url |-> url]]
        /\ userImageUrl' = [userImageUrl EXCEPT ![r] = url]
        /\ synthCalls' = [synthCalls EXCEPT ![r] = @ + 1]
        /\ synthArgs' = [synthArgs EXCEPT ![r] = args]
        /\ CASE begin.k = "call" ->
                  /\ providerCalls' = [providerCalls EXCEPT ![r] = @ + 1]
                  /\ providerRequest' = [providerRequest EXCEPT ![r] = begin]
                  /\ pc' = [pc EXCEPT ![r] = "await_provider"]
                  /\ UNCHANGED <<synthResult, sent>>
             [] begin.k = "return" ->
                  /\ synthResult' = [synthResult EXCEPT ![r] = begin]
                  /\ Respond(r, Finish(variant, env, req[r].body, url, begin.v))
                  /\ UNCHANGED <<providerCalls, providerRequest>>
             [] begin.k = "throw" ->
                  /\ synthResult' = [synthResult EXCEPT ![r] = begin]
                  /\ Respond(r, CatchPremium(begin))
                  /\ UNCHANGED <<providerCalls, providerRequest>>
  /\ UNCHANGED <<cfgVars, catalogVars, msgVars, clock, req, uploadId, providerOutcome, uploadCalls>>

\* the provider call settles: the synthesis client returns and the handler
\* runs to its response
ProviderSettles(r, o) ==
  /\ pc[r] = "await_provider"
  /\ providerOutcome' = [providerOutcome EXCEPT ![r] = o]
  /\ LET result == SynthEnd(variant, o) IN
     /\ synthResult' = [synthResult EXCEPT ![r] = result]
     /\ IF result.k = "throw"
        THEN Respond(r, CatchPremium(result))
        ELSE Respond(r, Finish(variant, env, req[r].body, userImageUrl[r], result.v))
  /\ UNCHANGED <<cfgVars, catalogVars, msgVars, clock, store, req, uploadId, uploadOutcome,
                 userImageUrl, synthArgs,
                 providerRequest, uploadCalls, synthCalls, providerCalls>>

\* generarMensajePersonalizado called on its own
CallGenerarMensaje ==
  /\ msgArgs # None
  /\ msgOut = None
  /\ msgOut' = generarMensajePersonalizado(variant, msgArgs.productName, msgArgs.idea)
  /\ UNCHANGED <<cfgVars, premiumVars, catalogVars, msgArgs>>

\* GET /productos-shopify arrives: the configuration test, then the query
CatalogStart ==
  /\ catPc = "idle"
  /\ LET begin == CatalogBegin(variant, env) IN
     IF begin.k = "throw"
     THEN /\ catLog' = catLog \o CatalogLog(variant, None, begin)
          /\ catSent' = Append(catSent, CatalogResponse(begin))
          /\ catPc' = "done"
          /\ UNCHANGED catFetchCalls
     ELSE /\ catFetchCalls' = catFetchCalls + 1
          /\ catPc' = "await_fetch"
          /\ UNCHANGED <<catLog, catSent>>
  /\ UNCHANGED <<cfgVars, premiumVars, msgVars, catOutcome>>

\* the storefront query settles: map or throw, then answer
CatalogSettles(o) ==
  /\ catPc = "await_fetch"
  /\ catOutcome' = o
  /\ LET result == CatalogEnd(variant, env, o) IN
     /\ catLog' = catLog \o CatalogLog(variant, o, result)
     /\ catSent' = Append(catSent, CatalogResponse(result))
  /\ catPc' = "done"
  /\ UNCHANGED <<cfgVars, premiumVars, msgVars, catFetchCalls>>

vars == <<cfgVars, premiumVars, catalogVars, msgVars>>

\* ------------------------------------------------------------ specifications
\* one premium request, every input and every outcome of its outbound calls
Init ==
  /\ variant \in Variants
  /\ env \in Envs
  /\ InitPremium
  /\ InitCatalog
  /\ InitMsg

Next ==
  \/ Tick
  \/ \E body \in Bodies, file \in {Undefined, File("r1")} : Start("r1", file, body)
  \/ \E detail \in UploadErrors : UploadFails("r1", detail)
  \/ UploadSucceeds("r1")
  \/ \E o \in ProviderOutcomes(variant) : ProviderSettles("r1", o)

Spec == Init /\ [][Next]_vars

\* generarMensajePersonalizado over every idea text of bounded length
IdeaChars == {" ", "a", "b"}
MsgIdeas == {Undefined, Arr(<<Str(<<"a">>)>>)} \cup {Str(s) : s \in SeqsUpTo(IdeaChars, MaxLen)}
MsgNames == {Str(<<"Lampara Sol">>), Str(<<"Espejo">>)}

InitMsgSpec ==
  /\ variant \in Variants
  /\ env \in Envs
  /\ InitPremium
  /\ InitCatalog
  /\ msgArgs \in [productName : MsgNames, idea : MsgIdeas]
  /\ msgOut = None

NextMsg == CallGenerarMensaje

SpecMsg == InitMsgSpec /\ [][NextMsg]_vars

\* one catalog request, every configuration and every outcome of its query
EnvsCatalog ==
  [ SHOPIFY_STORE_DOMAIN : {Undefined, Str(DomainText)},
    SHOPIFY_STOREFRONT_TOKEN : {Undefined, Str(<<"shpat">>)},
    SHOPIFY_STOREFRONT_ACCESS_TOKEN : {Undefined, Str(<<"shpat-alt">>)},
    GENERATION_TOKEN : {Undefined, Str(<<"r8">>)} ]

InitCatalogSpec ==
  /\ variant \in Variants
  /\ env \in EnvsCatalog
  /\ InitPremium
  /\ InitCatalog
  /\ InitMsg

NextCatalog ==
  \/ CatalogStart
  \/ \E o \in CatalogOutcomes(variant) : CatalogSettles(o)

SpecCatalog == InitCatalogSpec /\ [][NextCatalog]_vars

\* ------------------------------------------------------------------ claims
Absent(x) == x = Undefined \/ x = Str(<< >>)
Received(r) == pc[r] # "idle"
\* an image, a product id and a product name are all present
ValidRequest(r) ==
  /\ Received(r)
  /\ req[r].file # Undefined
  /\ ~Absent(req[r].body.productId)
  /\ ~Absent(req[r].body.productName)
NoOutboundCall(r) == uploadCalls[r] = 0 /\ synthCalls[r] = 0 /\ providerCalls[r] = 0
Answered(r) == pc[r] = "done" /\ Len(sent[r]) = 1
Answer(r) == sent[r][1]

\* C1: a premium request without image, or without a non-empty productId, or
\* without a non-empty productName, is answered 400 with success=false, and
\* no upload, synthesis or provider call is ever issued for it.
C1_RejectedBeforeOutbound ==
  \A r \in Reqs :
    (Received(r) /\ ~ValidRequest(r)) =>
      /\ Answered(r)
      /\ Answer(r).status = 400
      /\ Answer(r).body.success = FALSE
      /\ NoOutboundCall(r)

C1_Witness ==
  /\ req["r1"].file # Undefined
  /\ req["r1"].body.productId = Str(<<"lampara">>)
  /\ req["r1"].body.productName = Str(<< >>)
  /\ Answered("r1")
  /\ Answer("r1").status = 400

\* C2: when the upload of a valid premium request fails, the answer is 500
\* with success=false and the fixed generic text, whatever the upstream error
\* says, and the synthesis client is never invoked.
C2_UploadFailure ==
  \A r \in Reqs :
    uploadOutcome[r].k = "error" =>
      /\ ValidRequest(r)
      /\ Answered(r)
      /\ Answer(r).status = 500
      /\ Answer(r).body.success = FALSE
      /\ Answer(r).body.error = <<"Error interno preparando la experiencia premium">>
      /\ ~Includes(Answer(r).body.error, uploadOutcome[r].message)
      /\ synthCalls[r] = 0
      /\ providerCalls[r] = 0

C2_Witness ==
  /\ uploadOutcome["r1"] = [k |-> "error", message |-> <<"Invalid api_key">>]
  /\ Answered("r1")
  /\ Answer("r1").status = 500

\* C3: the synthesis client never rejects: whatever the reference image, the
\* product name and the idea carried by the request body, and however the
\* provider call goes, the client settles by returning.
C3_SynthNeverRejects ==
  \A r \in Reqs : synthResult[r].k # "throw"

\* the provider call was made and failed: it rejected, answered a status that
\* is not ok, or delivered no output
ProviderFailed(r) ==
  LET o == providerOutcome[r] IN
  \/ o.k \in {"reject", "http_error", "bad_json"}
  \/ o.k = "json" /\ o.json = Null
  \/ o.k = "json" /\ o.json # Null /\ variant \in ReplicateVariants
       /\ o.json.output \in {Undefined, Null, Arr(<< >>)}
  \/ o.k = "json" /\ o.json # Null /\ variant \notin ReplicateVariants
       /\ o.json.data \in {Undefined, Arr(<< >>)}
  \/ o.k = "value" /\ o.output \in {Undefined, Null, Arr(<< >>)}

\* C4: once the upload of a valid request has succeeded, a provider call that
\* throws, answers a non-success status or returns no output still yields a
\* response with success=true whose generatedImageUrl is the placeholder.
C4_SynthesisFailureAbsorbed ==
  \A r \in Reqs :
    ProviderFailed(r) =>
      /\ ValidRequest(r)
      /\ uploadOutcome[r].k = "ok"
      /\ Answered(r)
      /\ Answer(r).status = 200
      /\ Answer(r).body.success = TRUE
      /\ Answer(r).body.generatedImageUrl = Placeholder(variant)

C4_Witness ==
  /\ providerOutcome["r1"].k = "http_error"
  /\ Answered("r1")
  /\ Answer("r1").body.success = TRUE
  /\ Answer("r1").body.generatedImageUrl = Placeholder(variant)

\* C5: the success response of a valid premium request carries a
\* generatedImageUrl that is a non-empty string, whatever the first element
\* of the provider's output list is.
C5_GeneratedUrlNonEmpty ==
  \A r \in Reqs :
    (ValidRequest(r) /\ Answered(r) /\ Answer(r).status = 200) =>
      /\ Answer(r).body.generatedImageUrl.t = "string"
      /\ Answer(r).body.generatedImageUrl.v # << >>

\* C6: with a storefront domain configured, a success response carries the
\* request's productUrl when one was given, and otherwise
\* https://{domain}/products/{productId}.
C6_ProductUrlResolved ==
  \A r \in Reqs :
    (Answered(r) /\ Answer(r).status = 200 /\ Truthy(ShopDomain(variant, env))) =>
      IF ~Absent(req[r].body.productUrl)
      THEN Answer(r).body.productUrl = req[r].body.productUrl
      ELSE Answer(r).body.productUrl =
             Str(<<"https://">> \o ShopDomain(variant, env).v \o <<"/products/">>
                 \o req[r].body.productId.v)

AllWhiteSpace(s) == \A i \in 1..Len(s) : IsWhiteSpace(s[i])
\* t is s without its leading and trailing white space
IsTrimOf(t, s) ==
  \E i \in 1..(Len(s) + 1), j \in 0..Len(s) :
    /\ t = SubSeq(s, i, j)
    /\ AllWhiteSpace(SubSeq(s, 1, i - 1))
    /\ AllWhiteSpace(SubSeq(s, j + 1, Len(s)))
    /\ t # << >> => ~IsWhiteSpace(t[1]) /\ ~IsWhiteSpace(t[Len(t)])
BlankIdea(idea) == idea = Undefined \/ (idea.t = "string" /\ AllWhiteSpace(idea.v))
TextIdea(idea) == idea.t = "string" /\ ~AllWhiteSpace(idea.v)
HasQuotedClause(m) ==
  \E i \in 1..Len(m) : m[i] \in {OpenQuote, CloseQuote, IdeaBefore, IdeaAfter}

\* C7: the message starts with the lead sentence naming the product and ends
\* with the closing sentence; it has no quoted-idea clause when the idea is
\* absent, empty or blank, and otherwise quotes the idea's trimmed text.
C7_MessageTemplate ==
  (msgOut # None /\ (BlankIdea(msgArgs.idea) \/ TextIdea(msgArgs.idea))) =>
    /\ msgOut.k = "return"
    /\ LET m == msgOut.v.v IN
       /\ StartsWith(m, <<LeadBefore>> \o msgArgs.productName.v \o <<LeadAfter>>)
       /\ EndsWith(m, Closing(variant))
       /\ BlankIdea(msgArgs.idea) => ~HasQuotedClause(m)
       /\ TextIdea(msgArgs.idea) =>
            \E t \in SeqsUpTo(IdeaChars, Len(msgArgs.idea.v)) :
              /\ IsTrimOf(t, msgArgs.idea.v)
              /\ Includes(m, <<OpenQuote>> \o t \o <<CloseQuote>>)

C7_WitnessBlank ==
  /\ msgArgs # None
  /\ msgArgs.idea = Str(<<" ", " ">>)
  /\ msgOut # None
  /\ msgOut.k = "return"

C7_Witness ==
  /\ msgArgs # None
  /\ msgArgs.idea = Str(<<" ", "a", " ">>)
  /\ msgOut # None
  /\ msgOut.k = "return"
  /\ Includes(msgOut.v.v, <<OpenQuote, "a", CloseQuote>>)

CatalogAnswered == catPc = "done" /\ Len(catSent) = 1
CatalogAnswer == catSent[1]

\* C8: in a successful catalog answer every upstream record without an image
\* is mapped to a record whose image field is present and null.
C8_NoImageIsNull ==
  (CatalogAnswered /\ CatalogAnswer.status = 200 /\ catOutcome.k = "json" /\ catOutcome.data # Undefined) =>
    /\ CatalogAnswer.body.products.t = "array"
    /\ Len(CatalogAnswer.body.products.v) = Len(catOutcome.data.v)
    /\ \A i \in 1..Len(catOutcome.data.v) :
         HasNoImage(variant, catOutcome.data.v[i]) =>
           /\ "image" \in DOMAIN CatalogAnswer.body.products.v[i]
           /\ CatalogAnswer.body.products.v[i].image = Null

\* C9: when the commerce platform answers a status that is not ok, the catalog
\* route answers 5xx with success=false and an error text that carries neither
\* the upstream status nor the upstream body.
C9_CatalogErrorGeneric ==
  catOutcome.k = "http_error" =>
    /\ CatalogAnswered
    /\ CatalogAnswer.status >= 500
    /\ CatalogAnswer.body.success = FALSE
    /\ ~Includes(CatalogAnswer.body.error, <<catOutcome.status>>)
    /\ ~Includes(CatalogAnswer.body.error, catOutcome.text)

\* the output list of the provider's answer, empty when the answer has none
OutputListOf(o) ==
  CASE o.k = "json" ->
         IF o.json # Null /\ o.json.output.t = "array" THEN o.json.output.v ELSE << >>
    [] o.k = "value" -> IF o.output.t = "array" THEN o.output.v ELSE << >>
    [] OTHER -> << >>
TransportSuccess(o) == o.k \in {"json", "value"}
\* the Replicate client was invoked and either had no credential or saw its
\* provider call settle
ReplicateSettled(r) ==
  /\ variant \in ReplicateVariants
  /\ synthCalls[r] = 1
  /\ env.GENERATION_TOKEN = Undefined \/ providerOutcome[r] # None

\* C10: llamarReplicateImagen returns the first element of the provider's
\* output list when the credential is set, the transport succeeded and the
\* payload has a non-empty output list, and the placeholder in any other case.
C10_FirstOutputOrPlaceholder ==
  \A r \in Reqs :
    ReplicateSettled(r) =>
      /\ synthResult[r].k = "return"
      /\ synthResult[r].v =
           IF /\ env.GENERATION_TOKEN # Undefined
              /\ TransportSuccess(providerOutcome[r])
              /\ OutputListOf(providerOutcome[r]) # << >>
           THEN Head(OutputListOf(providerOutcome[r]))
           ELSE Str(<<"https://via.placeholder.com/1024x1024?text=Propuesta+IA">>)

C10_Witness ==
  /\ variant = "sdxl_fetch"
  /\ providerOutcome["r1"].k = "json"
  /\ OutputListOf(providerOutcome["r1"]) = <<GenUrl2, GenUrl1>>
  /\ synthResult["r1"] = Return(GenUrl2)

C10_WitnessPlaceholder ==
  /\ variant = "sdxl_fetch"
  /\ providerOutcome["r1"].k = "json"
  /\ providerOutcome["r1"].json # Null
  /\ providerOutcome["r1"].json.output = Arr(<< >>)
  /\ synthResult["r1"] = Return(Placeholder(variant))

\* C11: when the generation provider's credential is missing, the synthesis
\* client, once invoked, returns the placeholder at once and no call to the
\* provider is issued during that request.
C11_NoCredentialNoCall ==
  \A r \in Reqs :
    (env.GENERATION_TOKEN = Undefined /\ synthCalls[r] > 0) =>
      /\ synthResult[r].k = "return"
      /\ synthResult[r].v =
           IF variant = "gpt_image_1"
           THEN Str(<<"https://via.placeholder.com/500x300?text=Propuesta+IA">>)
           ELSE Str(<<"https://via.placeholder.com/1024x1024?text=Propuesta+IA">>)
      /\ providerCalls[r] = 0
      /\ providerRequest[r] = None
      /\ providerOutcome[r] = None
      /\ pc[r] = "done"

C11_Witness ==
  /\ env.GENERATION_TOKEN = Undefined
  /\ synthCalls["r1"] = 1
  /\ synthResult["r1"] = Return(Placeholder(variant))
  /\ providerCalls["r1"] = 0
  /\ Answered("r1")
  /\ Answer("r1").status = 200

\* C12: the synthesis client is invoked only after the upload has succeeded,
\* with the URL that upload returned as its reference image and with the
\* request's product name and idea (an absent idea may be passed as "").
C12_SynthAfterUploadWithItsUrl ==
  \A r \in Reqs :
    synthCalls[r] > 0 =>
      /\ uploadCalls[r] = 1
      /\ uploadOutcome[r].k = "ok"
      /\ synthArgs[r].roomImageUrl = uploadOutcome[r].secure_url
      /\ synthArgs[r].productName = req[r].body.productName
      /\ \/ synthArgs[r].idea = req[r].body.idea
         \/ Absent(synthArgs[r].idea) /\ Absent(req[r].body.idea)

\* the whole process: one premium request and one catalog request, in any
\* order, over a cut of the inputs that keeps every kind of settlement of the
\* three outbound calls
ServerBodies ==
  [productId : {Undefined, Str(<<"lampara">>)}, productName : {Str(<<"Lampara Sol">>)},
   idea : {Undefined, Arr(<<Str(<<"a">>), Str(<<"b">>)>>)}, productUrl : {Undefined}]
ServerProviderOutcomes(v) ==
  {o \in ProviderOutcomes(v) :
     \/ o.k \in {"reject", "http_error", "bad_json"}
     \/ o.k = "json" /\ o.json = Null
     \/ o.k = "json" /\ o.json # Null /\ v \in ReplicateVariants /\ o.json.output = Arr(<<GenUrl1>>)
     \/ o.k = "json" /\ o.json # Null /\ v \notin ReplicateVariants
          /\ o.json.data = Arr(<<[t |-> "object", url |-> GenUrl1]>>)
     \/ o.k = "value" /\ o.output \in {Null, Arr(<<GenUrl1>>)}}
ServerCatalogOutcomes(v) ==
  {o \in CatalogOutcomes(v) : o.k = "json" => (o.data = Undefined \/ Len(o.data.v) <= 1)}

NextServer ==
  \/ Tick
  \/ \E body \in ServerBodies, file \in {Undefined, File("r1")} : Start("r1", file, body)
  \/ \E detail \in UploadErrors : UploadFails("r1", detail)
  \/ UploadSucceeds("r1")
  \/ \E o \in ServerProviderOutcomes(variant) : ProviderSettles("r1", o)
  \/ CatalogStart
  \/ \E o \in ServerCatalogOutcomes(variant) : CatalogSettles(o)

SpecServer == Init /\ [][NextServer]_vars

\* C13: nothing is retried: a premium request issues at most one upload and
\* at most one call to the generation provider, a catalog request at most one
\* query to the commerce platform, however each call settles.
C13_NoRetry ==
  /\ \A r \in Reqs : uploadCalls[r] <= 1 /\ synthCalls[r] <= 1 /\ providerCalls[r] <= 1
  /\ catFetchCalls <= 1
  /\ \A r \in Reqs : pc[r] = "done" => uploadCalls[r] = (IF uploadOutcome[r] = None THEN 0 ELSE 1)
  /\ \A r \in Reqs : pc[r] = "done" => providerCalls[r] = (IF providerOutcome[r] = None THEN 0 ELSE 1)
  /\ catPc = "done" => catFetchCalls = (IF catOutcome = None THEN 0 ELSE 1)

C13_Witness ==
  /\ uploadOutcome["r1"].k = "ok"
  /\ providerOutcome["r1"].k = "reject"
  /\ pc["r1"] = "done"
  /\ uploadCalls["r1"] = 1
  /\ providerCalls["r1"] = 1
  /\ catOutcome.k = "http_error"
  /\ catPc = "done"
  /\ catFetchCalls = 1

\* the store domain or the storefront token is missing from the environment
CatalogUnconfigured ==
  \/ env.SHOPIFY_STORE_DOMAIN = Undefined
  \/ /\ env.SHOPIFY_STOREFRONT_TOKEN = Undefined
     /\ variant = "sdxl_sdk" => env.SHOPIFY_STOREFRONT_ACCESS_TOKEN = Undefined

\* C14: with the store domain or the storefront token not configured, a
\* catalog request is answered 500 with success=false and no query is issued
\* to the commerce platform.
C14_CatalogFailsFast ==
  (catPc # "idle" /\ CatalogUnconfigured) =>
    /\ catFetchCalls = 0
    /\ CatalogAnswered
    /\ CatalogAnswer.status = 500
    /\ CatalogAnswer.body.success = FALSE

\* two premium requests in flight at once, interleaved at their await points;
\* both are valid, so both reach the media host
ConcBodies ==
  [productId : {Str(<<"lampara">>)}, productName : {Str(<<"Lampara Sol">>)},
   idea : {Undefined, Str(<<" ", "a", " ">>)}, productUrl : {Undefined}]

InitConc ==
  /\ variant \in Variants
  /\ env \in {e \in Envs : e.SHOPIFY_STORE_DOMAIN # Undefined /\ e.SHOPIFY_STOREFRONT_TOKEN # Undefined}
  /\ InitPremium
  /\ InitCatalog
  /\ InitMsg

NextConc ==
  \/ Tick
  \/ \E r \in Reqs, body \in ConcBodies : Start(r, File(r), body)
  \/ \E r \in Reqs, detail \in UploadErrors : UploadFails(r, detail)
  \/ \E r \in Reqs : UploadSucceeds(r)
  \/ \E r \in Reqs, o \in ServerProviderOutcomes(variant) : ProviderSettles(r, o)

SpecConc == InitConc /\ [][NextConc]_vars

InFlight(r) == pc[r] \in {"await_upload", "await_provider"}
\* the image the media host serves at url
ImagesAt(url) == {a.image : a \in {b \in store : SecureUrl(b.id) = url}}

\* C15: concurrent premium requests do not interfere: two requests in flight
\* upload under distinct destination identifiers, and the userImageUrl a
\* request is answered with serves the image that request uploaded.
C15_RequestsIndependent ==
  /\ \A r1, r2 \in Reqs :
       (r1 # r2 /\ InFlight(r1) /\ InFlight(r2)) => uploadId[r1] # uploadId[r2]
  /\ \A r \in Reqs :
       (Answered(r) /\ Answer(r).status = 200) =>
         ImagesAt(Answer(r).body.userImageUrl) = {req[r].file.buffer}

\* one premium request whose outbound calls all settle: an issued upload and
\* an issued provider call are not left pending forever
UploadSettles(r) == (\E detail \in UploadErrors : UploadFails(r, detail)) \/ UploadSucceeds(r)

SpecFair ==
  /\ Init
  /\ [][Next]_vars
  /\ WF_vars(UploadSettles("r1"))
  /\ WF_vars(\E o \in ProviderOutcomes(variant) : ProviderSettles("r1", o))

\* the answer is one of the three the route can give
C16_AnswerShape(r) ==
  \/ Answer(r).status = 400 /\ Answer(r).body.success = FALSE /\ ~ValidRequest(r)
  \/ Answer(r).status = 500 /\ Answer(r).body.success = FALSE /\ ValidRequest(r)
  \/ /\ Answer(r).status = 200
     /\ Answer(r).body.success = TRUE
     /\ ValidRequest(r)
     /\ uploadOutcome[r].k = "ok"

\* C16: if every outbound call settles, a premium request gets exactly one
\* response: 400, 500, or 200 with success=true, the last only after the
\* validation passed and the upload resolved; a sent response is never
\* followed by another.
C16_ExactlyOneResponse ==
  /\ \A r \in Reqs : InFlight(r) ~> Answered(r)
  /\ [](\A r \in Reqs : Len(sent[r]) <= 1)
  /\ [](\A r \in Reqs : (Received(r) /\ ~InFlight(r)) => (Answered(r) /\ C16_AnswerShape(r)))
  /\ [](\A r \in Reqs : InFlight(r) => (sent[r] = << >> /\ ValidRequest(r)))
  /\ [][\A r \in Reqs : Len(sent[r]) = 1 => sent'[r] = sent[r]]_vars

C16_Witness ==
  /\ providerOutcome["r1"].k \in {"json", "value"}
  /\ Answered("r1")
  /\ Answer("r1").status = 200
  /\ Answer("r1").body.success = TRUE

====
